---- MODULE Spec2Model ----
(***************************************************************************)
(* x4build: development build orchestrator (x4build.mjs).                  *)
(*                                                                         *)
(* The model covers the watch -> rebuild -> notify pipeline (build(), the  *)
(* post-build copy plugin, the watcher callback, the live-reload client    *)
(* list) and the static file server's request handler.  The process is    *)
(* run with --watch --serve --http.                                        *)
(*                                                                         *)
(* A path string is modelled as a record [abs, segs, trail]: whether it    *)
(* starts with a separator, its segments between separators, and whether   *)
(* it ends with a separator.                                               *)
(***************************************************************************)
EXTENDS Integers, Sequences, FiniteSets, TLC

\* ------------------------------------------------------------------ bounds
MaxEvents  == 2      \* watcher events delivered in one run
MaxClients == 2      \* live-reload sockets that ever connect
MaxUrlLen  == 5      \* segments of a requested URL path

Tasks   == 0..MaxEvents        \* 0 is the startup build() of line 449
Handles == 1..MaxClients

\* ------------------------------------------------------------- node:path
Path(abs, segs, trail) == [abs |-> abs, segs |-> segs, trail |-> trail]

Last(s) == s[Len(s)]
Front(s) == SubSeq(s, 1, Len(s) - 1)

RECURSIVE normalizeString(_, _, _)
\* node:path normalizeString: drops "" and ".", resolves ".." against the
\* segment before it, keeps a leading ".." only when allowAboveRoot.
normalizeString(segs, allowAboveRoot, res) ==
    IF segs = << >> THEN res
    ELSE LET s == Head(segs) IN
         normalizeString(Tail(segs), allowAboveRoot,
            IF s = "" \/ s = "." THEN res
            ELSE IF s = ".."
                 THEN IF res # << >> /\ Last(res) # ".." THEN Front(res)
                      ELSE IF allowAboveRoot THEN Append(res, "..")
                      ELSE res
            ELSE Append(res, s))

\* path.normalize: an empty relative result is "."
normalize(p) ==
    LET segs == normalizeString(p.segs, ~p.abs, << >>) IN
    IF segs = << >> /\ ~p.abs THEN Path(FALSE, <<".">>, p.trail)
    ELSE Path(p.abs, segs, p.trail)

\* path.join(a, b): the non-empty arguments joined by a separator, then
\* normalized
join(a, b) ==
    IF b.segs = << >> /\ ~b.abs THEN normalize(a)
    ELSE normalize(Path(a.abs, a.segs \o b.segs, b.trail))

IsPrefix(s, t) == Len(s) <= Len(t) /\ SubSeq(t, 1, Len(s)) = s

\* --------------------------------------------------------------- settings
\* def_settings merged with the x4build section of package.json, which here
\* configures three copy rules: a directory, a directory the project does
\* not have, and a single file
outdir == Path(FALSE, <<".", "bin">>, FALSE)
copy   == << [from |-> Path(FALSE, <<"static">>, FALSE),
              to   |-> Path(FALSE, <<"assets", "static">>, FALSE)],
             [from |-> Path(FALSE, <<"fonts">>, FALSE),
              to   |-> Path(FALSE, <<"assets", "fonts">>, FALSE)],
             [from |-> Path(FALSE, <<"index.html">>, FALSE),
              to   |-> Path(FALSE, <<"index.html">>, FALSE)] >>

\* const settings (line 118) of the project Spec and ServeSpec run on
ProjectSettings == [outdir |-> outdir, copy |-> copy]

\* the same project built into ./dist (--outdir, or "outdir" in package.json)
DistSettings ==
    [outdir |-> Path(FALSE, <<".", "dist">>, FALSE), copy |-> copy]

\* a project that publishes its assets next to the output directory and
\* ships the build script with the bundle
ShipSettings ==
    [outdir |-> outdir,
     copy   |-> << [from |-> Path(FALSE, <<"static">>, FALSE),
                    to   |-> Path(FALSE, <<"..", "public">>, FALSE)],
                   [from |-> Path(FALSE, <<"x4build.mjs">>, FALSE),
                    to   |-> Path(FALSE, <<"x4build.mjs">>, FALSE)] >>]

Configs == {ProjectSettings, DistSettings, ShipSettings}

Rules(s) == 1..Len(s.copy)

\* the output directory as a location under the working directory
OutRoot == [s \in Configs |-> normalize(s.outdir).segs]

\* ------------------------------------------------------ static file server
\* Names a requested URL path is made of
UrlNames == {"..", "", "etc", "hosts", "index.html", "assets"}

\* A request target in origin form: "/" followed by names, each two
\* separated by "/" or by a back slash
Urls == UNION { [1..k -> UrlNames] : k \in 0..MaxUrlLen }

\* url.parse(req.url).pathname: back slashes are turned into slashes, so
\* every name is a segment of an absolute path; the path ends with a
\* separator when its last name is empty
pathnameOf(u) ==
    Path(TRUE, u, u = << >> \/ Last(u) = "")

RECURSIVE stripLeadingParents(_)
\* .replace(/^(\.\.[\/\\])+/, ''): removes every leading "../"
stripLeadingParents(p) ==
    IF p.abs \/ p.segs = << >> \/ Head(p.segs) # ".." THEN p
    ELSE IF Len(p.segs) = 1
         THEN IF p.trail THEN Path(FALSE, << >>, FALSE) ELSE p
         ELSE stripLeadingParents(Path(FALSE, Tail(p.segs), p.trail))

\* a sanitizer that forgets path.normalize
sanitizePath_noNormalize(p) == stripLeadingParents(p)

\* line 413
sanitizePath(p) == stripLeadingParents(normalize(p))

\* ------------------------------------------------------------- filesystem
\* Files are named by their segments under the working directory (cPath).
\* A directory exists when a file lies below it.
IsFile(fs, loc) == loc \in fs
IsDir(fs, loc)  == \E f \in fs : IsPrefix(loc, f) /\ f # loc

\* fs.existsSync: a file named with a trailing separator does not exist
existsSync(fs, p) ==
    IsDir(fs, p.segs) \/ (IsFile(fs, p.segs) /\ ~p.trail)

\* The project tree before the first build: sources, the files the copy
\* rules name, and one file next to the output directory
SourceFiles ==
    { <<"styles", "app.scss">>, <<"src", "app.tsx">>, <<"static", "logo.png">>,
      <<"index.html">>, <<"package.json">>, <<"README.md">>, <<"x4build.mjs">>,
      <<"etc", "hosts">> }

\* what esbuild writes into outdir for entryPoints ["src/main.ts"]
BundleFiles(s) == { OutRoot[s] \o <<"main.js">> }

\* The disk as the copy plugin sees it: the files, per copy rule whether
\* its source has changed since it was last copied into outdir, and the
\* rules whose fs.cpSync has run in this onEnd, in order
Disk(fs, st) == [files |-> fs, stale |-> st, ran |-> << >>]

\* fs.cpSync(from, dest, {recursive: true}) for rule i: every file at or
\* below from is written below dest, with its current contents
cpSync(d, i, from, dest) ==
    [d EXCEPT
       !.files = @ \cup { dest.segs \o SubSeq(f, Len(from.segs) + 1, Len(f)) :
                            f \in { g \in d.files : IsPrefix(from.segs, g) } },
       !.stale = [@ EXCEPT ![i] = FALSE],
       !.ran   = Append(@, i)]

\* per rule: from, and path.join(settings.outdir, to), line 183
CopyFrom == [s \in Configs |-> [i \in Rules(s) |-> normalize(s.copy[i].from)]]
CopyDest == [s \in Configs |-> [i \in Rules(s) |-> join(s.outdir, s.copy[i].to)]]

RECURSIVE copyRules(_, _, _)
\* settings.copy.forEach of post_plugin, rules i..Len(copy) in order
copyRules(s, d, i) ==
    IF i > Len(s.copy) THEN d
    ELSE copyRules(s,
                   IF existsSync(d.files, CopyFrom[s][i])
                   THEN cpSync(d, i, CopyFrom[s][i], CopyDest[s][i])
                   ELSE d,
                   i + 1)

\* a post_plugin whose onEnd copies nothing
onEnd_noCopy(s, d, ok) == d

\* a post_plugin whose onEnd copies whatever the result
onEnd_onFailureToo(s, d, ok) == copyRules(s, d, 1)

\* post_plugin onEnd, lines 174-187: rules are copied when the result has
\* no errors
onEnd(s, d, ok) == IF ok THEN copyRules(s, d, 1) ELSE d

\* ---------------------------------------------------------------- serve()
NoBody == << >>

\* server.on('request'), lines 403-443.  ioOk: whether reading an existing
\* regular file succeeds (EACCES, EIO, EMFILE otherwise).
respond(s, u, fs, ioOk) ==
    LET first == join(s.outdir, sanitizePath(pathnameOf(u))) IN
    IF existsSync(fs, first)
    THEN LET final == IF IsDir(fs, first.segs)
                      THEN join(first, Path(FALSE, <<"index.html">>, FALSE))
                      ELSE first
             readable == IsFile(fs, final.segs) /\ ioOk
         IN IF readable
            THEN [status |-> 200, pathname |-> final.segs, body |-> final.segs]
            ELSE [status |-> 500, pathname |-> final.segs, body |-> NoBody]
    ELSE [status |-> 404, pathname |-> first.segs, body |-> NoBody]

\* ------------------------------------------------------------ watch events
\* Paths the filesystem watcher can see below "./", as segments after
\* cPath: the sources, the bundle the build writes, and a dependency
WatchedPaths(s) ==
    { <<"styles", "app.scss">>, <<"src", "app.tsx">>, <<"static", "logo.png">>,
      <<"index.html">>, <<"package.json">>, <<"README.md">>, <<"x4build.mjs">>,
      <<"node_modules", "ws", "index.js">> } \cup BundleFiles(s)

EventKinds == {"add", "change", "unlink"}
NoEvent    == [event |-> "none", path |-> << >>]

\* url.fileURLToPath(import.meta.url): the script runs from the project root
selfPath == <<"x4build.mjs">>

\* path.extname of a file name
extname(name) ==
    CASE name = "app.scss"     -> ".scss"
      [] name = "app.tsx"      -> ".tsx"
      [] name = "logo.png"     -> ".png"
      [] name = "index.html"   -> ".html"
      [] name = "package.json" -> ".json"
      [] name = "README.md"    -> ".md"
      [] name = "x4build.mjs"  -> ".mjs"
      [] name = "main.js"      -> ".js"
      [] name = "index.js"     -> ".js"
      [] OTHER                 -> ""

\* String.prototype.startsWith on path strings.  No name of the watched
\* tree is a proper prefix of another, so a string prefix is a prefix by
\* segments.
startsWith(pth, prefix) ==
    prefix = << >> \/ IsPrefix(prefix, pth)

\* the watcher's ignore option, lines 292-304
ignore(targetPath) ==
    LET rel == normalize(Path(FALSE, targetPath, FALSE)).segs IN
    startsWith(rel, <<"bin">>) \/ startsWith(rel, <<"node_modules">>)

\* lines 312-318 for one rule: pth == from || pth.startsWith(from)
underRule(s, targetPath, i) ==
    LET pth  == normalize(Path(FALSE, <<".">> \o targetPath, FALSE)).segs
        from == normalize(s.copy[i].from).segs
    IN pth = from \/ startsWith(pth, from)

\* lines 311-321: settings.copy.some(...)
isCopyPath(s, targetPath) == \E i \in Rules(s) : underRule(s, targetPath, i)

\* a callback that does not look at the kind of the event
dispatch_anyKind(s, e) ==
    IF isCopyPath(s, e.path) THEN "copy"
    ELSE IF e.path = selfPath THEN "exit"
    ELSE LET ext == extname(Last(e.path)) IN
         IF ext \in {".svg", ".css", ".scss"} THEN "reload-css"
         ELSE IF ext \in {".html", ".ts", ".js", ".jsx", ".tsx"} THEN "reload-js"
         ELSE IF ext = ".json" /\ Last(e.path) = "package.json" THEN "manifest"
         ELSE "none"

\* a callback without the copy-rule test of lines 309-326
dispatch_noCopyCheck(s, e) ==
    IF e.event # "change" THEN "none"
    ELSE IF e.path = selfPath THEN "exit"
    ELSE LET ext == extname(Last(e.path)) IN
         IF ext \in {".svg", ".css", ".scss"} THEN "reload-css"
         ELSE IF ext \in {".html", ".ts", ".js", ".jsx", ".tsx"} THEN "reload-js"
         ELSE IF ext = ".json" /\ Last(e.path) = "package.json" THEN "manifest"
         ELSE "none"

\* What the watcher callback does with an event, lines 307-362:
\*   "copy"        await build(); return
\*   "exit"        process.exit(0)
\*   "reload-css"  await build(); sendClientMessage("reload-css")
\*   "reload-js"   await build(); sendClientMessage("reload-js")
\*   "manifest"    build()
\*   "none"        nothing
dispatch(s, e) ==
    IF e.event \in {"change", "add"} /\ isCopyPath(s, e.path) THEN "copy"
    ELSE IF e.event # "change" THEN "none"
    ELSE IF e.path = selfPath THEN "exit"
    ELSE LET ext == extname(Last(e.path)) IN
         IF ext \in {".svg", ".css", ".scss"} THEN "reload-css"
         ELSE IF ext \in {".html", ".ts", ".js", ".jsx", ".tsx"} THEN "reload-js"
         ELSE IF ext = ".json" /\ Last(e.path) = "package.json" THEN "manifest"
         ELSE "none"

callsBuild(d)  == d \in {"copy", "reload-css", "reload-js", "manifest"}

\* a callback that also announces a manifest rebuild
broadcasts_manifestToo(d) == d \in {"reload-css", "reload-js", "manifest"}

broadcasts(d)  == d \in {"reload-css", "reload-js"}

\* dispatch and ignore, tabulated over the settings and the events
Events ==
    { [event |-> k, path |-> p] :
        k \in EventKinds, p \in UNION { WatchedPaths(s) : s \in Configs } }
Delivered ==
    [s \in Configs |-> { e \in Events : e.path \in WatchedPaths(s)
                                        /\ ~ignore(e.path) }]
DispatchOf ==
    [s \in Configs |-> [e \in Events \cup {NoEvent} |-> dispatch(s, e)]]
TouchesRule ==
    [s \in Configs |->
       [e \in Events |->
          [i \in Rules(s) |-> e.event \in {"add", "change"}
                              /\ underRule(s, e.path, i)]]]

\* ------------------------------------------------------------------ state
VARIABLES
    settings,   \* const settings (line 118): outdir and copy
    buildcnt,   \* let buildcnt (line 193)
    started,    \* the module's last statements, build() and serve(), have run
    watching,   \* the timer of line 367 has fired and watch() has run
    running,    \* the process has neither exited nor died
    pc,         \* per task: "idle", "await" (inside await esbuild.build),
                \*   "done" (its build ended and its callback returned),
                \*   "skipped" (its callback returned without a build),
                \*   "rejected" (its promise rejected)
    ev,         \* per awaiting task: the watch event of its callback
    clients,    \* const clients (line 266): sockets in connection order
    alive,      \* sockets whose connection is still open
    files,      \* the files on disk
    stale,      \* per copy rule: its source changed since it was last
                \*   copied into outdir
    bundleBy,   \* the task whose esbuild.build wrote the bundle that is in
                \*   outdir now (NoTask: none has)
    resp,       \* the response of the static server to the request it is
                \*   handling: url, status, the path it resolved, the file
                \*   whose bytes it sent, and whether the startup build had
                \*   ended when the request was handled
    last        \* what the latest callback of the pipeline did: the event
                \*   delivered ("event") or the build that ended ("end"),
                \*   the copy rules its onEnd ran, the messages given to
                \*   sendClientMessage and the sockets ws.send was called
                \*   on, in order

vars == << settings, buildcnt, started, watching, running, pc, ev, clients,
           alive, files, stale, bundleBy, resp, last >>

NoTask == 0 - 1

NoResp == [url |-> << >>, status |-> 0, pathname |-> << >>, body |-> NoBody,
           built |-> FALSE]

NoLast == [op |-> "none", task |-> 0, e |-> NoEvent, ok |-> FALSE,
           ran |-> << >>, msgs |-> << >>, sentTo |-> << >>]

\* the state after the module's top-level statements up to line 448, for
\* settings s
Boot(s) ==
    /\ settings = s
    /\ buildcnt = 1
    /\ started = FALSE
    /\ watching = FALSE
    /\ running = TRUE
    /\ pc = [t \in Tasks |-> "idle"]
    /\ ev = [t \in Tasks |-> NoEvent]
    /\ clients = << >>
    /\ alive = {}
    /\ files = SourceFiles
    /\ stale = [i \in Rules(s) |-> TRUE]
    /\ bundleBy = NoTask
    /\ resp = NoResp
    /\ last = NoLast

Init == Boot(ProjectSettings)

\* any of the settings
ConfigInit == \E s \in Configs : Boot(s)

\* bundler invocations executing now
InFlight == { t \in Tasks : pc[t] = "await" }

\* ---------------------------------------------------------------- build()
\* a build() that forgets to count
buildEnter_noCount(cnt) == cnt

\* line 197: buildcnt++ on entry, before the bundler is invoked
buildEnter(cnt) == cnt + 1

\* a build() without its try/catch
buildSettles_noCatch(ok) == IF ok THEN "resolved" ELSE "rejected"

\* lines 199-243: the promise of build() resolves whether esbuild.build
\* resolved or rejected (the catch logs and returns)
buildSettles(ok) == "resolved"

\* ------------------------------------------------------ sendClientMessage
\* lines 279-283: clients.forEach(ws => ws.send(msg)).  thrownAt is the
\* index of the socket whose send raised (0: none did); forEach stops there.
sendClientMessage(cl, thrownAt) ==
    IF thrownAt = 0 THEN cl ELSE SubSeq(cl, 1, thrownAt)

\* ws.send raises only on a socket that is no longer open, and whether it
\* does depends on the ws release
MayThrowAt(cl, open) == {0} \cup { i \in 1..Len(cl) : cl[i] \notin open }

\* ---------------------------------------------------------------- actions
\* lines 449-453: build() is called and not awaited, then serve() listens
Startup ==
    /\ running /\ ~started
    /\ started' = TRUE
    /\ buildcnt' = buildEnter(buildcnt)
    /\ pc' = [pc EXCEPT ![0] = "await"]
    /\ last' = NoLast
    /\ UNCHANGED << settings, watching, running, ev, clients, alive,
                    files, bundleBy, stale, resp >>

\* line 367: setTimeout(watch, 2000)
StartWatch ==
    /\ running /\ started /\ ~watching
    /\ watching' = TRUE
    /\ last' = NoLast
    /\ UNCHANGED << settings, buildcnt, started, running, pc, ev,
                    clients, alive, files, bundleBy, stale, resp >>

\* events delivered so far
Arrived == Cardinality({ t \in 1..MaxEvents : pc[t] # "idle" })

\* watcher.on('all', ...) up to its first await, lines 307-362, for the
\* next event the watcher delivers
WatchEvent ==
    /\ running /\ watching
    /\ Arrived < MaxEvents
    /\ \E e \in Delivered[settings] :
        LET t == Arrived + 1
            d == DispatchOf[settings][e]
        IN
        /\ stale' = [i \in Rules(settings) |->
                        stale[i] \/ TouchesRule[settings][e][i]]
        /\ IF callsBuild(d)
           THEN /\ buildcnt' = buildEnter(buildcnt)
                /\ pc' = [pc EXCEPT ![t] = "await"]
                /\ ev' = [ev EXCEPT ![t] = e]
           ELSE /\ pc' = [pc EXCEPT ![t] = "skipped"]
                /\ UNCHANGED << buildcnt, ev >>
        /\ running' = (d # "exit")
        /\ last' = [NoLast EXCEPT !.op = "event", !.task = t, !.e = e]
    /\ UNCHANGED << settings, started, watching, clients, alive,
                    files, bundleBy, resp >>

\* esbuild.build of task t ends.  On success the bundle is written; onEnd
\* runs; the promise of build() settles, and in the same turn of the event
\* loop the callback that awaited it continues (lines 340, 350): no other
\* callback runs in between.  thrownAt: see sendClientMessage.
BundlerEnd(t, ok, thrownAt) ==
    LET d       == IF t = 0 THEN "startup" ELSE DispatchOf[settings][ev[t]]
        written == IF ok THEN files \cup BundleFiles(settings) ELSE files
        sent    == sendClientMessage(clients, thrownAt)
    IN
    /\ running /\ pc[t] = "await"
    /\ thrownAt \in IF buildSettles(ok) = "resolved" /\ broadcasts(d)
                    THEN MayThrowAt(clients, alive) ELSE {0}
    /\ \E disk \in { onEnd(settings, Disk(written, stale), ok) } :
         /\ files' = disk.files
         /\ stale' = disk.stale
         /\ last' = [op |-> "end", task |-> t, e |-> ev[t], ok |-> ok,
                     ran |-> disk.ran,
                     msgs |-> IF buildSettles(ok) = "resolved" /\ broadcasts(d)
                              THEN <<d>> ELSE << >>,
                     sentTo |-> IF buildSettles(ok) = "resolved" /\ broadcasts(d)
                                THEN sent ELSE << >>]
    /\ bundleBy' = IF ok THEN t ELSE bundleBy
    /\ ev' = [ev EXCEPT ![t] = NoEvent]
    /\ IF buildSettles(ok) = "rejected"
       THEN \* await build() throws in the callback; nothing handles it
            /\ pc' = [pc EXCEPT ![t] = "rejected"]
            /\ running' = FALSE
       ELSE IF broadcasts(d) /\ thrownAt # 0
       THEN \* the callback's promise rejects and nothing handles it
            /\ pc' = [pc EXCEPT ![t] = "rejected"]
            /\ running' = FALSE
       ELSE /\ pc' = [pc EXCEPT ![t] = "done"]
            /\ running' = running
    /\ UNCHANGED << settings, buildcnt, started, watching, clients, alive,
                    resp >>

\* wsServer.on('connection'), lines 268-277
Connect ==
    /\ running /\ watching
    /\ Len(clients) < MaxClients
    /\ clients' = Append(clients, Len(clients) + 1)
    /\ alive' = alive \cup {Len(clients) + 1}
    /\ last' = NoLast
    /\ UNCHANGED << settings, buildcnt, started, watching, running,
                    pc, ev, files, bundleBy, stale, resp >>

\* a client goes away; no 'close' or 'error' listener is set on its socket,
\* so nothing in the program runs
Disconnect(h) ==
    /\ running /\ h \in alive
    /\ alive' = alive \ {h}
    /\ last' = NoLast
    /\ UNCHANGED << settings, buildcnt, started, watching, running,
                    pc, ev, clients, files, bundleBy, stale, resp >>

\* one request reaches the static server; requests are handled one at a
\* time
Request ==
    /\ running /\ started
    /\ resp = NoResp
    /\ \E u \in Urls, ioOk \in BOOLEAN :
         LET r == respond(settings, u, files, ioOk) IN
         resp' = [url |-> u, status |-> r.status, pathname |-> r.pathname,
                  body |-> r.body, built |-> (pc[0] = "done")]
    /\ UNCHANGED << settings, buildcnt, started, watching, running,
                    pc, ev, clients, alive, files, bundleBy, stale, last >>

\* res.end(): the response has left
ResponseSent ==
    /\ resp # NoResp
    /\ resp' = NoResp
    /\ UNCHANGED << settings, buildcnt, started, watching, running,
                    pc, ev, clients, alive, files, bundleBy, stale, last >>

\* the watch -> rebuild -> notify pipeline
Next ==
    \/ Startup
    \/ StartWatch
    \/ WatchEvent
    \/ \E t \in Tasks, ok \in BOOLEAN, k \in 0..MaxClients : BundlerEnd(t, ok, k)
    \/ Connect
    \/ \E h \in Handles : Disconnect(h)

Spec == Init /\ [][Next]_vars

\* the startup build and the static server
ServeNext ==
    \/ Startup
    \/ \E ok \in BOOLEAN : BundlerEnd(0, ok, 0)
    \/ Request
    \/ ResponseSent

ServeSpec == Init /\ [][ServeNext]_vars

\* the pipeline without live-reload clients, for any of the settings
ConfigNext ==
    \/ Startup
    \/ StartWatch
    \/ WatchEvent
    \/ \E t \in Tasks, ok \in BOOLEAN : BundlerEnd(t, ok, 0)

ConfigSpec == ConfigInit /\ [][ConfigNext]_vars

\* ================================================================ claims
Range(q) == { q[i] : i \in 1..Len(q) }

StyleExts == {".css", ".scss", ".svg"}
CodeExts  == {".html", ".js", ".jsx", ".ts", ".tsx"}

\* the path lies at or below the source of copy rule i
UnderSource(path, i) == IsPrefix(settings.copy[i].from.segs, path)
UnderAnySource(path) == \E i \in Rules(settings) : UnderSource(path, i)

\* the latest callback ended a build and broadcast a message
Broadcast == last.op = "end" /\ last.msgs # << >>

\* C1: at most one bundler invocation (esbuild.build) executes at any
\* instant; a new one never starts while another is in flight.
C1_OneBundlerInvocation == Cardinality(InFlight) <= 1

\* C2: a disconnected client's socket is removed from the registry: no
\* broadcast calls send on a closed socket, no broadcast raises, and after
\* a broadcast the registry holds no closed socket.
C2_ConnectionCleanup ==
    Broadcast =>
        /\ \A h \in Range(last.sentTo) : h \in alive
        /\ pc[last.task] # "rejected"
        /\ \A h \in Range(clients) : h \in alive

\* C3: whatever "../" segments the URL path holds, the path the server
\* resolves, and any file it sends, lies inside the output directory;
\* /../../../etc/hosts is answered with 404.
C3_TraversalSafety ==
    resp # NoResp =>
        /\ IsPrefix(OutRoot[settings], resp.pathname)
        /\ ".." \notin Range(resp.pathname)
        /\ resp.body # NoBody => IsPrefix(OutRoot[settings], resp.body)
        /\ resp.url = <<"..", "..", "..", "etc", "hosts">> => resp.status = 404

\* C3 witness: /../../../etc/hosts was requested after a successful build,
\* with etc/hosts present outside the output directory, and got 404
C3_Witness ==
    /\ resp.url = <<"..", "..", "..", "etc", "hosts">>
    /\ resp.status = 404
    /\ resp.pathname = OutRoot[settings] \o <<"etc", "hosts">>
    /\ BundleFiles(settings) \subseteq files
    /\ <<"etc", "hosts">> \in files

\* calls of build() so far: the startup call and one per callback that
\* reached a build
NumCalls == Cardinality({ t \in Tasks : pc[t] \in {"await", "done", "rejected"} })

\* C4: after K calls of build(), succeeded, failed or still running, the
\* counter is its initial value 1 plus K, and it never decreases.
C4_CounterMonotonicity ==
    /\ [](buildcnt = 1 + NumCalls)
    /\ [][buildcnt' >= buildcnt]_vars

\* C4 witness: three calls, one of them just failed, one still in flight
C4_Witness ==
    /\ buildcnt = 4
    /\ last.op = "end" /\ ~last.ok
    /\ InFlight # {}

\* C5: a changed event for a path outside the copy sources starts one
\* build and, once that build has ended, exactly one broadcast follows,
\* "reload-css" for a style extension and "reload-js" for a code/markup
\* extension, sent to every registered connection.
C5_ClassifiedBroadcast ==
    LET ext  == extname(Last(last.e.path))
        mine == /\ last.e.event = "change"
                /\ ~UnderAnySource(last.e.path)
                /\ ext \in StyleExts \cup CodeExts
    IN
    /\ (last.op = "event" /\ mine) => pc[last.task] = "await"
    /\ (last.op = "end" /\ mine) =>
          /\ pc[last.task] # "await"
          /\ last.msgs = << IF ext \in StyleExts THEN "reload-css" ELSE "reload-js" >>
          /\ last.sentTo = clients

\* C6: when a send to one connection fails, every other registered
\* connection still gets the message, and the process keeps running.
C6_BroadcastIsolation ==
    Broadcast =>
        /\ \A h \in Range(clients) : h \in alive => h \in Range(last.sentTo)
        /\ running

\* C7: when the bundler fails, build() returns normally to its caller: the
\* callback goes on past "await build()" (to its broadcast, if it has one),
\* the process is not brought down by the failure, and the watcher
\* callback can start the next build.
C7_BuildFailureNotFatal ==
    (last.op = "end" /\ ~last.ok) =>
        /\ IF broadcasts(DispatchOf[settings][last.e])
           THEN last.msgs = << DispatchOf[settings][last.e] >>
           ELSE pc[last.task] = "done" /\ running
        /\ (running /\ watching /\ Arrived < MaxEvents) => ENABLED WatchEvent

\* C7 witness: every build that ended so far failed (no bundle was ever
\* written), and the watcher callback has just started another one
C7_Witness ==
    /\ pc[0] = "done"
    /\ BundleFiles(settings) \cap files = {}
    /\ last.op = "event" /\ pc[last.task] = "await"
    /\ running

\* C8: no request is served before the startup build has ended.
C8_OutputReadyBeforeServe == resp # NoResp => resp.built

\* the source of rule i is mirrored below its destination, contents included
Copied(i) ==
    /\ ~stale[i]
    /\ \A f \in files :
          IsPrefix(CopyFrom[settings][i].segs, f)
              => CopyDest[settings][i].segs \o SubSeq(f, Len(CopyFrom[settings][i].segs) + 1, Len(f))
                     \in files

CopyEvent(e) == e.event \in {"add", "change"} /\ UnderAnySource(e.path)

\* one build() call per copy-source event: the counter moves by one when the
\* event arrives and not when its build ends
C9_OneBuild ==
    \A t \in 1..MaxEvents :
        /\ (pc[t] = "idle" /\ pc'[t] # "idle" /\ CopyEvent(last'.e))
              => (pc'[t] = "await" /\ buildcnt' = buildcnt + 1)
        /\ (pc[t] = "await" /\ pc'[t] # "await") => buildcnt' = buildcnt

\* C9, as claimed: an added or changed event below a copy source makes one
\* build() call, and once that build has ended the source is copied into
\* outdir/destination.
C9_CopyAfterRebuild ==
    /\ [][C9_OneBuild]_vars
    /\ []((last.op = "end" /\ CopyEvent(last.e))
            => \A i \in Rules(settings) : UnderSource(last.e.path, i) => Copied(i))

\* C9, amended: ... and once that build has ended without bundler errors
\* the source is copied into outdir/destination.
C9_CopyAfterSuccessfulRebuild ==
    /\ [][C9_OneBuild]_vars
    /\ []((last.op = "end" /\ last.ok /\ CopyEvent(last.e))
            => \A i \in Rules(settings) : UnderSource(last.e.path, i) => Copied(i))

\* C9 witness: the build for a change of static/logo.png has ended well and
\* the copy is in place
C9_Witness ==
    /\ last.op = "end" /\ last.ok
    /\ last.e = [event |-> "change", path |-> <<"static", "logo.png">>]
    /\ Copied(1)
    /\ OutRoot[settings] \o <<"assets", "static", "logo.png">> \in files

\* C10: a request whose finally resolved path (index.html appended for a
\* directory) does not exist gets 404; 500 is given only for a file that
\* exists; "/" gets index.html with 200 when outdir/index.html exists.
C10_MissingFile404 ==
    resp # NoResp =>
        LET exists == IsFile(files, resp.pathname) \/ IsDir(files, resp.pathname) IN
        /\ ~exists => resp.status = 404
        /\ resp.status = 500 => exists
        /\ (resp.url = << >> /\ resp.status = 200)
              => resp.body = OutRoot[settings] \o <<"index.html">>

\* C11: no trigger is lost.  A trigger that arrives while a build is in
\* flight starts its own bundler invocation; once an invocation has
\* completed and written the output, no invocation that started before it
\* replaces that output, so the final output is that of an invocation
\* started at or after every trigger.
C11_NoLostTrigger == [][bundleBy' >= bundleBy]_vars

\* the path lies under the configured output directory
UnderOutdir(path) == IsPrefix(OutRoot[settings], path)

\* C12: for any configured output directory, an event whose path lies
\* under the output directory or under node_modules starts no build and no
\* broadcast.
C12_NoFeedbackLoop ==
    (last.op = "event"
       /\ (UnderOutdir(last.e.path) \/ IsPrefix(<<"node_modules">>, last.e.path)))
        => pc[last.task] = "skipped"

\* C13: a changed event for the script's own path ends the process at
\* once, before copy rules are matched: the event starts no build.
C13_SelfModificationExit ==
    (last.op = "event" /\ last.e.event = "change" /\ last.e.path = selfPath)
        => (~running /\ pc[last.task] = "skipped")

\* the step is a watcher callback for an event of kind k
EventStep(k) == pc' # pc /\ last'.op = "event" /\ last'.e.event = k

\* C14: an event of kind removed, whatever its path, leaves the build
\* counter, the builds in flight, the files and the connection registry as
\* they were, and no broadcast follows from it.
C14_RemovedNoOp ==
    /\ [][EventStep("unlink") =>
             /\ buildcnt' = buildcnt
             /\ InFlight' = InFlight
             /\ clients' = clients
             /\ running' = running]_vars
    /\ []((last.op = "event" /\ last.e.event = "unlink")
            => (pc[last.task] = "skipped" /\ last.msgs = << >>))

\* C14 witness: static/logo.png, below a copy source, was removed while a
\* build was in flight and a client was connected
C14_Witness ==
    /\ last.op = "event"
    /\ last.e = [event |-> "unlink", path |-> <<"static", "logo.png">>]
    /\ InFlight # {}
    /\ clients # << >>

\* a changed package.json that matches no copy rule
Manifest(e) ==
    /\ e.event = "change"
    /\ e.path # << >> /\ Last(e.path) = "package.json"
    /\ ~UnderAnySource(e.path)

\* a changed path of no class: no copy rule, no style or code/markup
\* extension, not the manifest
Unclassified(e) ==
    /\ e.event = "change"
    /\ ~UnderAnySource(e.path)
    /\ extname(Last(e.path)) \notin StyleExts \cup CodeExts
    /\ ~Manifest(e)

\* C15: a changed package.json that matches no copy rule starts one build
\* and no broadcast is made for it, before or after that build ends; a
\* changed path of any other unclassified extension starts neither.
C15_ManifestRebuildOnly ==
    /\ (last.op = "event" /\ Manifest(last.e))
          => (pc[last.task] = "await" /\ last.msgs = << >>)
    /\ (last.op = "end" /\ Manifest(last.e))
          => (pc[last.task] = "done" /\ last.msgs = << >> /\ last.sentTo = << >>)
    /\ (last.op = "event" /\ Unclassified(last.e))
          => (pc[last.task] = "skipped" /\ last.msgs = << >>)

\* C15 witness: the build for a changed package.json has ended with a
\* client connected, and nothing was sent
C15_Witness ==
    /\ last.op = "end"
    /\ last.e = [event |-> "change", path |-> <<"package.json">>]
    /\ clients # << >> /\ Range(clients) \subseteq alive
    /\ last.sentTo = << >>

\* C16: an added event for a path outside the copy sources is classified
\* like a changed one: a style or code/markup extension starts a build,
\* and "reload-css" or "reload-js" is broadcast once that build has ended.
C16_AddedClassified ==
    LET ext  == extname(Last(last.e.path))
        mine == /\ last.e.event = "add"
                /\ ~UnderAnySource(last.e.path)
                /\ ext \in StyleExts \cup CodeExts
    IN
    /\ (last.op = "event" /\ mine) => pc[last.task] = "await"
    /\ (last.op = "end" /\ mine) =>
          last.msgs = << IF ext \in StyleExts THEN "reload-css" ELSE "reload-js" >>

\* C17: whatever "to" a copy rule has, the directory the post-build copy
\* writes to, outdir joined with to, lies inside the output directory, and
\* so does every file a build has written.
C17_CopyInsideOutdir ==
    /\ \A i \in Range(last.ran) : UnderOutdir(CopyDest[settings][i].segs)
    /\ \A f \in files \ SourceFiles : UnderOutdir(f)

\* the rules whose source exists, in configured order
ExistingRules ==
    SelectSeq([i \in Rules(settings) |-> i],
              LAMBDA i : existsSync(files, CopyFrom[settings][i]))

\* the step is the end of a bundler invocation
EndStep == \E t \in Tasks : pc[t] = "await" /\ pc'[t] # "await"

\* C18: when the bundler reports no errors, every copy rule whose source
\* exists has been copied, in configured order, by the time the caller of
\* build() has resumed; when it reports errors no rule is run and the
\* files, copies included, are as they were.
C18_CopyExactlyOnSuccess ==
    /\ []((last.op = "end" /\ last.ok)
            => /\ last.ran = ExistingRules
               /\ \A i \in Range(last.ran) : Copied(i))
    /\ []((last.op = "end" /\ ~last.ok) => last.ran = << >>)
    /\ [][(EndStep /\ ~last'.ok) => (files' = files /\ stale' = stale)]_vars

\* C18 witness: a build for a style change ended without errors: rules 1
\* and 3 were copied in that order, rule 2 has no source, and the caller
\* has gone on to its broadcast
C18_Witness ==
    /\ last.op = "end" /\ last.ok
    /\ last.ran = <<1, 3>>
    /\ last.msgs = <<"reload-css">>
    /\ OutRoot[settings] \o <<"index.html">> \in files

\* C19: when the build for a changed style or code/markup path fails, the
\* message is still sent to the registered connections after build()
\* returns.
C19_BroadcastAfterFailure ==
    LET ext == extname(Last(last.e.path)) IN
    (/\ last.op = "end" /\ ~last.ok
     /\ last.e.event = "change"
     /\ ~UnderAnySource(last.e.path)
     /\ ext \in StyleExts \cup CodeExts)
        => /\ last.msgs = << IF ext \in StyleExts THEN "reload-css" ELSE "reload-js" >>
           /\ last.sentTo = clients

\* C20: an added or changed event below a copy source starts one build and
\* stops there: no broadcast is made for it, whatever its extension.
C20_CopyRulePrecedence ==
    /\ (last.op = "event" /\ CopyEvent(last.e)) => pc[last.task] = "await"
    /\ (last.op = "end" /\ CopyEvent(last.e))
          => (pc[last.task] = "done" /\ last.msgs = << >> /\ last.sentTo = << >>)

\* C20 witness: the build for a changed index.html, a copy source with a
\* markup extension, has ended with a client connected and nothing was sent
C20_Witness ==
    /\ last.op = "end"
    /\ last.e = [event |-> "change", path |-> <<"index.html">>]
    /\ extname(Last(last.e.path)) \in CodeExts
    /\ clients # << >> /\ Range(clients) \subseteq alive
    /\ last.sentTo = << >>

====
